---- MODULE Spec2Model ----
(***************************************************************************)
(* Model of version_middleware.py: the Accept-header version extractor     *)
(* (AcceptHeaderVersionMiddleware), the versioned route                    *)
(* (VersionedAPIRoute), the versioned router (VersionedAPIRouter) and the  *)
(* application assembled at the bottom of the file.                        *)
(*                                                                         *)
(* Text values (header values, version tokens, the vendor prefix) are      *)
(* sequences of one-character strings, so that pattern matching and string *)
(* equality are computed character by character.                           *)
(***************************************************************************)
EXTENDS Naturals, Sequences, FiniteSets

VARIABLES vendor_prefix, latest_version, accept_regex,
          api_version, routes, nCalls,
          pc, request, scope, log

vars == <<vendor_prefix, latest_version, accept_regex,
          api_version, routes, nCalls,
          pc, request, scope, log>>

config == <<vendor_prefix, latest_version, accept_regex>>
registry == <<api_version, routes, nCalls>>

(* ------------------------------ bounds --------------------------------- *)

\* longest vendor prefix (and longest vendor segment of a header) explored
MaxPrefixLen == 2
\* calls of router.version(...)(func) and route registrations made after the
\* module has been imported
MaxRegistryCalls == 1

(* ------------------------------ text ----------------------------------- *)

Str_application_vnd == <<"a","p","p","l","i","c","a","t","i","o","n","/","v","n","d">>
Str_mytestapp == <<"m","y","t","e","s","t","a","p","p">>
Str_latest == <<"l","a","t","e","s","t">>
Str_json == <<"j","s","o","n">>
Str_text_html_comma == <<"t","e","x","t","/","h","t","m","l",",">>
Str_any_any == <<"*","/","*">>

Digits == {"0","1","2","3","4","5","6","7","8","9"}

SeqsUpTo(S, n) == UNION {[1..k -> S] : k \in 0..n}

IsPrefixOf(p, s) == Len(p) <= Len(s) /\ SubSeq(s, 1, Len(p)) = p

(* --------------------------- pattern matching -------------------------- *)
(* The pattern text is a sequence of tokens: a plain character, an escaped *)
(* character ("\\." and "\\+"), the class "[0-9]", the wildcard ".", the   *)
(* quantifiers "+" and "*", the group parentheses and the anchor "^".      *)

Unescape(tok) == IF tok = "\\." THEN "." ELSE IF tok = "\\+" THEN "+" ELSE tok

SetQuant(atoms, q) ==
    [atoms EXCEPT ![Len(atoms)] = [@ EXCEPT !.quant = q]]

RECURSIVE Compile(_, _, _, _)
Compile(toks, i, inGroup, atoms) ==
    IF i > Len(toks) THEN atoms
    ELSE LET t == toks[i] IN
      IF t = "^" THEN Compile(toks, i + 1, inGroup, atoms)
      ELSE IF t = "(" THEN Compile(toks, i + 1, TRUE, atoms)
      ELSE IF t = ")" THEN Compile(toks, i + 1, FALSE, atoms)
      ELSE IF t \in {"+", "*"} THEN Compile(toks, i + 1, inGroup, SetQuant(atoms, t))
      ELSE LET kind == IF t = "." THEN "any"
                       ELSE IF t = "[0-9]" THEN "digit"
                       ELSE "lit"
           IN Compile(toks, i + 1, inGroup,
                      Append(atoms, [kind |-> kind, ch |-> Unescape(t),
                                     quant |-> "1", group |-> inGroup]))

AtomOk(a, c) ==
    IF a.kind = "lit" THEN c = a.ch
    ELSE IF a.kind = "digit" THEN c \in Digits
    ELSE c # "\n"

\* the longest run of characters from position j that atom a accepts
Run(a, s, j) ==
    LET ks == {k \in 0..(Len(s) + 1 - j) : \A m \in 0..(k - 1) : AtomOk(a, s[j + m])}
    IN CHOOSE k \in ks : \A x \in ks : x <= k

NoMatch == [ok |-> FALSE, grp |-> <<>>]

RECURSIVE MatchFrom(_, _, _, _)
RECURSIVE TryCount(_, _, _, _, _, _)
\* greedy, backtracking match of atoms[i..] against s[j..]
MatchFrom(atoms, i, s, j) ==
    IF i > Len(atoms) THEN [ok |-> TRUE, grp |-> <<>>]
    ELSE LET a == atoms[i]
             lo == IF a.quant = "*" THEN 0 ELSE 1
             hi == IF a.quant = "1"
                   THEN (IF j <= Len(s) /\ AtomOk(a, s[j]) THEN 1 ELSE 0)
                   ELSE Run(a, s, j)
         IN TryCount(atoms, i, s, j, hi, lo)

TryCount(atoms, i, s, j, k, lo) ==
    IF k < lo THEN NoMatch
    ELSE LET r == MatchFrom(atoms, i + 1, s, j + k) IN
         IF r.ok
         THEN (IF atoms[i].group
               THEN [ok |-> TRUE, grp |-> SubSeq(s, j, j + k - 1)]
               ELSE r)
         ELSE IF k = 0 THEN NoMatch
         ELSE TryCount(atoms, i, s, j, k - 1, lo)

RECURSIVE SearchFrom(_, _, _, _)
SearchFrom(atoms, s, j, anchored) ==
    LET r == MatchFrom(atoms, 1, s, j) IN
    IF r.ok THEN r
    ELSE IF anchored \/ j > Len(s) THEN NoMatch
    ELSE SearchFrom(atoms, s, j + 1, anchored)

\* re.search(pattern, string): the first match, with its group 1
re_search(pattern, string) ==
    SearchFrom(Compile(pattern, 1, FALSE, <<>>), string, 1,
               Len(pattern) > 0 /\ pattern[1] = "^")

(* ------------------------ AcceptHeaderVersionMiddleware ---------------- *)

\* rf"^application/vnd\.{vendor_prefix}\.v([0-9]+)\+.*"
MakeAcceptRegex(prefix) ==
    <<"^">> \o Str_application_vnd \o <<"\\.">> \o prefix
            \o <<"\\.", "v", "(", "[0-9]", "+", ")", "\\+", ".", "*">>

NoValue == <<"<unset>">>

NoHeader == [present |-> FALSE, value |-> <<>>]
Header(v) == [present |-> TRUE, value |-> v]

\* the scope as the server hands it to the middleware
RawScope(req) ==
    [type |-> req.type, path |-> req.path, method |-> req.method,
     hasApp |-> req.hasApp,
     latest_version |-> NoValue, requested_version |-> NoValue]

\* the scope after the middleware's body, before it calls the wrapped app
MiddlewareScope(req) ==
    IF req.type \in {"http", "websocket"}
    THEN LET defaults == [RawScope(req) EXCEPT
                            !.latest_version = latest_version,
                            !.requested_version = latest_version]
         IN IF req.accept.present
            THEN LET match == re_search(accept_regex, req.accept.value) IN
                 IF match.ok
                 THEN [defaults EXCEPT !.requested_version = match.grp]
                 ELSE defaults
            ELSE defaults
    ELSE RawScope(req)

(* ------------------------------ VersionedAPIRoute ---------------------- *)

Ev(ev, route, status, body) ==
    [ev |-> ev, route |-> route, status |-> status, body |-> body]

\* str(self.endpoint.__api_version__): read from the function on every use
endpoint_version(route) == api_version[route.endpoint]

\* is_version_matching with the "latest" handler accepting every request
is_version_matching_latest_always(route, sc) ==
    LET requested_version == sc.requested_version
        is_latest == endpoint_version(route) = Str_latest
    IN is_latest \/ endpoint_version(route) = requested_version

is_version_matching(route, sc) ==
    LET requested_version == sc.requested_version
        is_latest == endpoint_version(route) = Str_latest
    IN (is_latest /\ requested_version = sc.latest_version)
       \/ endpoint_version(route) = requested_version

\* super().matches(scope): the framework route's path and method match,
\* which only ever matches an http scope
APIRoute_matches(route, sc) ==
    IF sc.type = "http" /\ route.path = sc.path
    THEN (IF sc.method \notin route.methods THEN "PARTIAL" ELSE "FULL")
    ELSE "NONE"

\* matches without the version check: the framework's match is returned as is
matches_ignoring_version(i, sc) ==
    [match |-> APIRoute_matches(routes[i], sc),
     trace |-> <<Ev("matches", i, 0, <<>>)>>]

\* matches returning early on a partial match only, so that a route whose path
\* does not match still goes through the version check
matches_without_none_return(i, sc) ==
    LET match == APIRoute_matches(routes[i], sc) IN
    IF match = "PARTIAL"
    THEN [match |-> match, trace |-> <<Ev("matches", i, 0, <<>>)>>]
    ELSE [match |-> IF is_version_matching(routes[i], sc) THEN "FULL" ELSE "PARTIAL",
          trace |-> <<Ev("matches", i, 0, <<>>),
                      Ev("is_version_matching", i, 0, <<>>)>>]

\* matches(scope) of route number i: the match, and the calls it made
matches(i, sc) ==
    LET match == APIRoute_matches(routes[i], sc) IN
    IF match = "NONE" \/ match = "PARTIAL"
    THEN [match |-> match, trace |-> <<Ev("matches", i, 0, <<>>)>>]
    ELSE [match |-> IF is_version_matching(routes[i], sc) THEN "FULL" ELSE "PARTIAL",
          trace |-> <<Ev("matches", i, 0, <<>>),
                      Ev("is_version_matching", i, 0, <<>>)>>]

\* the message with the two versions interchanged
NotAcceptableDetail_swapped(sc) ==
    <<"Requested version ">> \o sc.latest_version
        \o <<" does not exist. Latest available version is ">>
        \o sc.requested_version \o <<".">>

\* f"Requested version {requested} does not exist. Latest available version is {latest}."
NotAcceptableDetail(sc) ==
    <<"Requested version ">> \o sc.requested_version
        \o <<" does not exist. Latest available version is ">>
        \o sc.latest_version \o <<".">>

\* super().handle(scope, receive, send): the framework route's handler
APIRoute_handle(i, sc) ==
    IF sc.method \notin routes[i].methods
    THEN (IF sc.hasApp
          THEN <<Ev("raise", i, 405, <<"Method Not Allowed">>)>>
          ELSE <<Ev("send_plain", i, 405, <<"Method Not Allowed">>)>>)
    ELSE <<Ev("endpoint", i, 0, <<routes[i].endpoint>>),
           Ev("send_json", i, 200, <<routes[i].endpoint>>)>>

\* handle(scope, receive, send) of route number i: what it does, in order
handle(i, sc) ==
    LET entry == <<Ev("handle", i, 0, <<>>), Ev("is_version_matching", i, 0, <<>>)>> IN
    IF ~is_version_matching(routes[i], sc)
    THEN (IF sc.hasApp
          THEN entry \o <<Ev("raise", i, 406, NotAcceptableDetail(sc))>>
          ELSE entry \o <<Ev("send_plain", i, 406, <<"Not Acceptable">>)>>
                     \o APIRoute_handle(i, sc))
    ELSE entry \o APIRoute_handle(i, sc)

(* ------------------------------ VersionedAPIRouter --------------------- *)

\* the framework router's default when no route matches
not_found(sc) ==
    IF sc.type = "websocket" THEN <<Ev("websocket_close", 0, 0, <<>>)>>
    ELSE IF sc.hasApp THEN <<Ev("raise", 0, 404, <<"Not Found">>)>>
    ELSE <<Ev("send_plain", 0, 404, <<"Not Found">>)>>

RECURSIVE RouteLoop(_, _, _, _)
\* the framework router's loop over the routes in registration order: the first
\* full match is handled, else the first partial match, else not_found
RouteLoop(i, partial, sc, trace) ==
    IF i > Len(routes)
    THEN (IF partial # 0 THEN trace \o handle(partial, sc)
          ELSE trace \o not_found(sc))
    ELSE LET m == matches(i, sc) IN
         IF m.match = "FULL" THEN trace \o m.trace \o handle(i, sc)
         ELSE RouteLoop(i + 1,
                        IF m.match = "PARTIAL" /\ partial = 0 THEN i ELSE partial,
                        sc, trace \o m.trace)

Router_app(sc) ==
    IF sc.type = "lifespan" THEN <<Ev("lifespan", 0, 0, <<>>)>>
    ELSE RouteLoop(1, 0, sc, <<>>)

(* ------------------------------ the application ------------------------ *)

Funcs == {"foo_v1", "foo_v2", "foo_v3", "foo_latest"}

Route(path, method, f) == [path |-> path, methods |-> {method}, endpoint |-> f]

\* the four decorated functions of the module, after import
ModuleTags ==
    [f \in Funcs |->
        IF f = "foo_v1" THEN <<"1">>
        ELSE IF f = "foo_v2" THEN <<"2">>
        ELSE IF f = "foo_v3" THEN <<"3">>
        ELSE Str_latest]

ModuleRoutes ==
    <<Route("/foo", "GET", "foo_v1"), Route("/foo", "GET", "foo_v2"),
      Route("/foo", "GET", "foo_v3"), Route("/foo", "GET", "foo_latest")>>

(* ------------------------------ inputs --------------------------------- *)

Tags == {<<"1">>, <<"2">>, <<"3">>, <<"4">>, Str_latest}
Paths == {"/foo", "/bar"}
Methods == {"GET", "POST"}

VendorHeader(prefix, digits, tail) ==
    Header(Str_application_vnd \o <<".">> \o prefix \o <<".", "v">> \o digits \o tail)

PlusJson == <<"+">> \o Str_json

Request(type, path, method, hasApp, accept) ==
    [type |-> type, path |-> path, method |-> method, hasApp |-> hasApp,
     accept |-> accept]

NoRequest == Request("none", "", "", FALSE, NoHeader)
NoScope == RawScope(NoRequest)

LifespanRequest == Request("lifespan", "", "", TRUE, NoHeader)

\* requests sent to the assembled application (vendor prefix "mytestapp")
AppHeaders ==
    {NoHeader, Header(Str_any_any)}
    \cup {VendorHeader(Str_mytestapp, n, PlusJson) :
            n \in {<<"1">>, <<"2">>, <<"4">>, <<"9">>, <<"0", "2">>}}

AppRequests ==
    {Request("http", p, m, a, h) :
        p \in Paths, m \in Methods, a \in BOOLEAN, h \in AppHeaders}
    \cup {Request("websocket", p, "", a, h) :
        p \in Paths, a \in BOOLEAN, h \in {NoHeader, VendorHeader(Str_mytestapp, <<"2">>, PlusJson)}}
    \cup {LifespanRequest}

\* vendor prefixes and header values for the extractor
PrefixAlphabet == {"a", ".", "+"}

\* "++" is left out: the pattern library reads it differently across versions
VendorPrefixes ==
    {p \in SeqsUpTo(PrefixAlphabet, MaxPrefixLen) :
        /\ Len(p) >= 1
        /\ \A k \in 1..(Len(p) - 1) : ~(p[k] = "+" /\ p[k + 1] = "+")}

LatestVersions == {<<"4">>, <<"2">>, Str_latest}

\* the digit strings a header may carry after ".v"
VersionDigits == {<<"0">>, <<"2">>, <<"0", "2">>, <<"4", "2">>}

AcceptHeaders ==
    {NoHeader, Header(<<>>), Header(Str_any_any)}
    \cup {Header(lead \o VendorHeader(mid, n, tail).value) :
            lead \in {<<>>, Str_text_html_comma},
            mid \in SeqsUpTo(PrefixAlphabet, MaxPrefixLen),
            n \in VersionDigits \cup {<<>>},
            tail \in {PlusJson, Str_json}}

AcceptRequests ==
    {Request(t, "/foo", IF t = "http" THEN "GET" ELSE "", TRUE, h) :
        t \in {"http", "websocket"}, h \in AcceptHeaders}
    \cup {LifespanRequest}

(* ------------------------------ actions -------------------------------- *)

\* router.version(api_version)(func): the decorator sets the function's tag
version(f, v) ==
    /\ pc = "idle"
    /\ nCalls < MaxRegistryCalls
    /\ api_version' = [api_version EXCEPT ![f] = v]
    /\ nCalls' = nCalls + 1
    /\ UNCHANGED <<config, routes, pc, request, scope, log>>

\* router.get(path)(func) / router.post(path)(func): one more route
add_api_route(path, method, f) ==
    /\ pc = "idle"
    /\ nCalls < MaxRegistryCalls
    /\ routes' = Append(routes, Route(path, method, f))
    /\ nCalls' = nCalls + 1
    /\ UNCHANGED <<config, api_version, pc, request, scope, log>>

\* AcceptHeaderVersionMiddleware.__call__ up to the call of the wrapped app
Middleware_call(req) ==
    /\ pc = "idle"
    /\ request' = req
    /\ scope' = MiddlewareScope(req)
    /\ log' = <<>>
    /\ pc' = "app"
    /\ UNCHANGED <<config, registry>>

\* the wrapped application: the router dispatches the request
Router_call ==
    /\ pc = "app"
    /\ log' = Router_app(scope)
    /\ pc' = "done"
    /\ UNCHANGED <<config, registry, request, scope>>

\* the request is over; its scope is dropped
Complete ==
    /\ pc = "done"
    /\ pc' = "idle"
    /\ request' = NoRequest
    /\ scope' = NoScope
    /\ log' = <<>>
    /\ UNCHANGED <<config, registry>>

InitRequest ==
    /\ pc = "idle"
    /\ request = NoRequest
    /\ scope = NoScope
    /\ log = <<>>

InitModule ==
    /\ api_version = ModuleTags
    /\ routes = ModuleRoutes
    /\ nCalls = 0

\* the module as written: vendor prefix "mytestapp", latest version "4"
Init ==
    /\ vendor_prefix = Str_mytestapp
    /\ latest_version = <<"4">>
    /\ accept_regex = MakeAcceptRegex(Str_mytestapp)
    /\ InitModule
    /\ InitRequest

Next ==
    \/ \E f \in Funcs, v \in Tags : version(f, v)
    \/ \E p \in Paths, m \in Methods, f \in Funcs : add_api_route(p, m, f)
    \/ \E req \in AppRequests : Middleware_call(req)
    \/ Router_call
    \/ Complete

Spec == Init /\ [][Next]_vars

\* the middleware constructed with any vendor prefix and latest version
InitAccept ==
    /\ vendor_prefix \in VendorPrefixes
    /\ latest_version \in LatestVersions
    /\ accept_regex = MakeAcceptRegex(vendor_prefix)
    /\ InitModule
    /\ InitRequest

NextAccept ==
    \/ \E req \in AcceptRequests : Middleware_call(req)
    \/ Router_call
    \/ Complete

SpecAccept == InitAccept /\ [][NextAccept]_vars

(* ======================================================================= *)
(*                              properties                                 *)
(* ======================================================================= *)

\* the matching rule as the design states it, for declared version V
DeclaredFull(V, requested, latest) ==
    IF V = Str_latest THEN requested = latest ELSE V = requested

\* the header pattern as the design states it, with the vendor prefix P taken
\* literally: "application/vnd." P ".v" digits "+" anything
LiteralPatternMatches(P, s) ==
    LET lit == Str_application_vnd \o <<".">> \o P \o <<".", "v">> IN
    /\ IsPrefixOf(lit, s)
    /\ \E k \in 1..Len(s) :
         /\ Len(lit) + k + 1 <= Len(s)
         /\ \A m \in 1..k : s[Len(lit) + m] \in Digits
         /\ s[Len(lit) + k + 1] = "+"

Extracted == pc \in {"app", "done"} /\ request.type \in {"http", "websocket"}

LogIndex == 1..Len(log)
Executed == {k \in LogIndex : log[k].ev = "endpoint"}
Outcome406 == \E k \in LogIndex : log[k].status = 406
RouteIndex == 1..Len(routes)
RoutesAtPath == {i \in RouteIndex : routes[i].path = scope.path}
RouteDeclaredFull(i) ==
    DeclaredFull(api_version[routes[i].endpoint],
                 scope.requested_version, scope.latest_version)
V2Header == VendorHeader(Str_mytestapp, <<"2">>, PlusJson)
V4Header == VendorHeader(Str_mytestapp, <<"4">>, PlusJson)
V9Header == VendorHeader(Str_mytestapp, <<"9">>, PlusJson)

\* C1: for an http request whose path and method match a set of routes with
\* pairwise distinct declared versions, one of which is a full match, exactly
\* one handler body runs, it is a full match, and no 406 is produced; with the
\* module's own four routes and latest version "4", no Accept header or a v4
\* header reaches foo_latest and a v2 header reaches foo_v2.
C1_DispatchSelectsMatching ==
    (pc = "done" /\ scope.type = "http") =>
      LET cands == {i \in RoutesAtPath : scope.method \in routes[i].methods}
          full == {i \in cands : RouteDeclaredFull(i)}
          ran == {log[k].body[1] : k \in Executed}
      IN /\ ( /\ \A i, j \in cands :
                   i # j => api_version[routes[i].endpoint] # api_version[routes[j].endpoint]
              /\ full # {} )
            => /\ Cardinality(Executed) = 1
               /\ \A k \in Executed : log[k].route \in full
               /\ ~Outcome406
         /\ ( /\ routes = ModuleRoutes /\ api_version = ModuleTags
              /\ request.path = "/foo" /\ request.method = "GET" )
            => /\ request.accept \in {NoHeader, V4Header} => ran = {"foo_latest"}
               /\ request.accept = V2Header => ran = {"foo_v2"}

C1_Witness ==
    /\ pc = "done" /\ scope.type = "http"
    /\ routes = ModuleRoutes /\ api_version = ModuleTags
    /\ request.accept = V2Header
    /\ \E k \in Executed : log[k].body = <<"foo_v2">> /\ log[k].route = 2

\* C2: when the path matches and no route at that path is a full match for the
\* requested version, no handler body runs while the request is processed,
\* whether or not "app" is in the scope.
C2_NoBodyWhenNotAcceptable ==
    ( /\ pc = "done" /\ scope.type = "http"
      /\ RoutesAtPath # {}
      /\ \A i \in RoutesAtPath : ~RouteDeclaredFull(i) )
    => Executed = {}

\* C3: whenever handle runs for a request that is not version-matching: with
\* "app" in the scope it raises status 406 with the message built from the
\* scope's requested and latest versions and sends nothing; without "app" it
\* sends a plain-text 406 "Not Acceptable".
C3_RejectionForm ==
    pc = "done" =>
      \A k \in LogIndex :
        (log[k].ev = "handle" /\ ~is_version_matching(routes[log[k].route], scope)) =>
          IF scope.hasApp
          THEN /\ Len(log) = k + 2
               /\ log[k + 2].ev = "raise"
               /\ log[k + 2].status = 406
               /\ log[k + 2].body =
                     <<"Requested version ">> \o scope.requested_version
                     \o <<" does not exist. Latest available version is ">>
                     \o scope.latest_version \o <<".">>
               /\ \A n \in LogIndex : log[n].ev \notin {"send_plain", "send_json"}
          ELSE /\ Len(log) >= k + 2
               /\ log[k + 2].ev = "send_plain"
               /\ log[k + 2].status = 406
               /\ log[k + 2].body = <<"Not Acceptable">>

C3_Witness ==
    /\ pc = "done" /\ scope.hasApp
    /\ request.accept = V9Header
    /\ Len(log) > 0
    /\ log[Len(log)].ev = "raise"
    /\ log[Len(log)].body =
          <<"Requested version ", "9",
            " does not exist. Latest available version is ", "4", ".">>

\* C4: for every vendor prefix P and digit string N, the header
\* "application/vnd.P.vN+json" leaves requested_version = N (as text) and
\* latest_version = the configured value.
C4_ValidHeaderExtracted ==
    Extracted =>
      \A n \in VersionDigits :
        request.accept = VendorHeader(vendor_prefix, n, PlusJson) =>
          /\ scope.requested_version = n
          /\ scope.latest_version = latest_version

\* C5: an absent Accept header, or one that does not match the design's
\* pattern at the start of its value, leaves requested_version =
\* latest_version = the configured value, and the wrapped app is called.
C5_SilentFallback ==
    ( /\ Extracted
      /\ \/ ~request.accept.present
         \/ ~LiteralPatternMatches(vendor_prefix, request.accept.value) )
    => /\ scope.requested_version = latest_version
       /\ scope.latest_version = latest_version

\* C6: for every route with declared version V and every scope the middleware
\* produces, is_version_matching is true iff requested = latest when V is
\* "latest", and iff V = requested otherwise.
C6_MatchingRule ==
    Extracted =>
      \A i \in RouteIndex :
        is_version_matching(routes[i], scope) <=> RouteDeclaredFull(i)

C6_Witness ==
    /\ pc = "app" /\ request.type = "http"
    /\ latest_version = <<"2">>
    /\ scope.requested_version = <<"0", "2">>
    /\ ~is_version_matching(routes[2], scope)
    /\ ~is_version_matching(routes[4], scope)

\* C7: once a function is registered on a route, no later step changes the
\* declared version the route uses.
C7_TagsWriteOnce ==
    [][\A i \in RouteIndex :
          api_version'[routes[i].endpoint] = api_version[routes[i].endpoint]]_vars

\* C8: a header yields a requested version other than the default only if the
\* text between "application/vnd." and ".v<digits>+" is exactly the vendor
\* prefix.
C8_PrefixLiteral ==
    ( /\ Extracted
      /\ request.accept.present
      /\ scope.requested_version # latest_version )
    => LiteralPatternMatches(vendor_prefix, request.accept.value)

C10_406OnlyWhenUnavailable ==
    (pc = "done" /\ \E k \in LogIndex : log[k].ev = "raise" /\ log[k].status = 406) =>
      \A i \in RoutesAtPath : ~RouteDeclaredFull(i)

====
